---- MODULE Spec2Model ----
(***************************************************************************)
(* Model of event_checker.py: one invocation of the script loads the set   *)
(* of known event ids from known_events.json, fetches the artist's current *)
(* events, mails a summary of the events whose id is not known, and        *)
(* overwrites known_events.json with the ids of the current fetch.         *)
(* The script is run again and again by an external scheduler; every run   *)
(* is a fresh process that reads its configuration from the environment.   *)
(***************************************************************************)
EXTENDS Naturals, Sequences, FiniteSets

VARIABLES
    dbFile,           \* known_events.json: whether it exists and the JSON array in it
    env,              \* API_KEY, GMAIL_USER, GMAIL_APP_PASSWORD, RECIPIENTS: set or not
    pc,               \* where the current process is (or how it ended)
    known_event_ids,  \* main(): the loaded set
    current_events,   \* main(): the fetched list
    new_events,       \* main(): the list handed to notify_email
    message,          \* notify_email(): the message built (subject and body)
    io,               \* the I/O operations of the current run, in order
    startFile,        \* history: dbFile when the current run started
    outbox,           \* history: ids that were in some successfully sent mail
    suppressed,       \* history: ids mailed once and fetched by every completed run since
    prev              \* history: how the previous run ended and what it had seen

vars == <<dbFile, env, pc, known_event_ids, current_events, new_events, message,
          io, startFile, outbox, suppressed, prev>>

----------------------------------------------------------------------------
(* Bounds and the data the event source can return.                        *)

MaxFetch == 2

PageSize == 10

Ids == {"A", "B", "C", "D"}

Absent == "<absent>"

\* The event objects of the API, one per id: A carries every detail, B has
\* neither dates nor venues, C has an empty venue list, D a venue without city.
EventOf(id) ==
    CASE id = "A" -> [id |-> "A", name |-> "Tokyo", url |-> "u/A",
                      localDate |-> "2026-01-10", hasVenues |-> TRUE,
                      venues |-> <<[name |-> "Budokan", city |-> "Tokyo"]>>]
      [] id = "B" -> [id |-> "B", name |-> "Osaka", url |-> "u/B",
                      localDate |-> Absent, hasVenues |-> FALSE,
                      venues |-> <<>>]
      [] id = "C" -> [id |-> "C", name |-> "Kobe", url |-> "u/C",
                      localDate |-> Absent, hasVenues |-> TRUE,
                      venues |-> <<>>]
      [] OTHER    -> [id |-> "D", name |-> "Nagoya", url |-> "u/D",
                      localDate |-> "2026-02-20", hasVenues |-> TRUE,
                      venues |-> <<[name |-> "Dome", city |-> Absent]>>]

Range(s) == {s[i] : i \in 1..Len(s)}

Min(a, b) == IF a < b THEN a ELSE b

\* The lists the event source can answer with: at most PageSize events (and
\* at most MaxFetch here), no two with the same id.
FetchResults ==
    {[i \in 1..Len(ids) |-> EventOf(ids[i])] :
        ids \in {s \in UNION {[1..n -> Ids] : n \in 0..Min(PageSize, MaxFetch)} :
                    \A i, j \in 1..Len(s) : s[i] = s[j] => i = j}}

\* The orders in which a set can be written out as a list.
Orderings(S) == {s \in [1..Cardinality(S) -> S] : Range(s) = S}

----------------------------------------------------------------------------
(* The pure parts of the script.                                           *)

\* load_known_events(): set(json.load(f)), or set() when the file is missing.
load_known_events(file) == IF file.exists THEN Range(file.ids) ELSE {}

\* main(): {event["id"] for event in current_events}
EventIds(events) == {events[i].id : i \in 1..Len(events)}

\* Mutant: the known ids are not subtracted.
NewEventIdsNoDiff(current_ids, known_ids) == current_ids

\* main(): current_event_ids - known_event_ids
NewEventIds(current_ids, known_ids) == current_ids \ known_ids

\* Mutant: the fetched list is handed over unfiltered.
NewEventsUnfiltered(events, new_ids) == events

\* main(): [event for event in current_events if event["id"] in new_event_ids]
NewEvents(events, new_ids) == SelectSeq(events, LAMBDA e : e.id \in new_ids)

\* Mutant: the known ids are kept and the fetched ids added.
IdsToSaveUnion(current_ids, known_ids) == current_ids \cup known_ids

\* Mutant: only the new ids are saved.
IdsToSaveNewOnly(current_ids, known_ids) == current_ids \ known_ids

\* main(): what is passed to save_known_events
IdsToSave(current_ids, known_ids) == current_ids

\* Mutant: the key check is left out.
ApiKeyCheckSkipped(e) == FALSE

\* main() and __main__: not API_KEY
ApiKeyMissing(e) == ~e.API_KEY

\* Mutant: the recipients are not checked.
CredentialsMissingNoRecipients(e) == ~e.GMAIL_USER \/ ~e.GMAIL_APP_PASSWORD

\* notify_email(): not GMAIL_USER or not GMAIL_APP_PASSWORD or not RECIPIENTS
CredentialsMissing(e) ==
    ~e.GMAIL_USER \/ ~e.GMAIL_APP_PASSWORD \/ ~e.RECIPIENTS

\* dict.get(key, "N/A")
GetOr(v, default) == IF v = Absent THEN default ELSE v

\* notify_email(): event.get("_embedded", {}).get("venues", [{}])
VenueList(event) ==
    IF event.hasVenues THEN event.venues
    ELSE <<[name |-> Absent, city |-> Absent]>>

\* notify_email(): [0] of the venue list raises IndexError on an empty list
BlockRaises(event) == VenueList(event) = <<>>

\* notify_email(): one event_details block
EventDetails(event) ==
    LET venue_info == VenueList(event)[1]
    IN  [Event |-> event.name,
         Date  |-> GetOr(event.localDate, "N/A"),
         Venue |-> <<GetOr(venue_info.name, "N/A"), GetOr(venue_info.city, "N/A")>>,
         Link  |-> event.url]

\* notify_email(): subject and body of the message
BuildMessage(events) ==
    [built  |-> TRUE,
     count  |-> Len(events),
     plural |-> IF Len(events) > 1 THEN "s" ELSE "",
     blocks |-> [i \in 1..Len(events) |-> EventDetails(events[i])]]

NoMessage == [built |-> FALSE, count |-> 0, plural |-> "", blocks |-> <<>>]

----------------------------------------------------------------------------
(* The runs.                                                               *)

Ended == {"done", "config_error", "source_unavailable", "notification_failed",
          "crashed"}

Envs == [API_KEY : BOOLEAN, GMAIL_USER : BOOLEAN, GMAIL_APP_PASSWORD : BOOLEAN,
         RECIPIENTS : BOOLEAN]

NoPrev == [outcome |-> "none", known |-> {}, mailed |-> {}, current |-> <<>>,
           new |-> <<>>]

\* The current run has done this I/O operation.
Did(op) == \E i \in 1..Len(io) : io[i] = op

Times(op) == Cardinality({i \in 1..Len(io) : io[i] = op})

\* What the next run remembers of a run that ended: of a run whose
\* notification failed, the events it fetched and found new; of a run that
\* was killed, the known set it had loaded and the ids it had mailed.
Summary ==
    CASE pc = "notification_failed" ->
            [NoPrev EXCEPT !.outcome = pc, !.current = current_events,
                           !.new = new_events]
      [] pc = "crashed" ->
            [NoPrev EXCEPT !.outcome = pc, !.known = known_event_ids,
                           !.mailed = IF Did("mail_sent") THEN EventIds(new_events)
                                      ELSE {}]
      [] OTHER -> [NoPrev EXCEPT !.outcome = pc]

Init ==
    /\ dbFile = [exists |-> FALSE, ids |-> <<>>]
    /\ env = [API_KEY |-> TRUE, GMAIL_USER |-> TRUE, GMAIL_APP_PASSWORD |-> TRUE,
              RECIPIENTS |-> TRUE]
    /\ pc = "idle"
    /\ known_event_ids = {}
    /\ current_events = <<>>
    /\ new_events = <<>>
    /\ message = NoMessage
    /\ io = <<>>
    /\ startFile = dbFile
    /\ outbox = {}
    /\ suppressed = {}
    /\ prev = NoPrev

\* The scheduler starts the script: the module reads the environment, and
\* __main__ and main() refuse to go on without an API key.
Invoke(e) ==
    /\ pc \in Ended \cup {"idle"}
    /\ env' = e
    /\ known_event_ids' = {}
    /\ current_events' = <<>>
    /\ new_events' = <<>>
    /\ message' = NoMessage
    /\ io' = <<>>
    /\ startFile' = dbFile
    /\ prev' = Summary
    /\ pc' = IF ApiKeyMissing(e) THEN "config_error" ELSE "load"
    /\ UNCHANGED <<dbFile, outbox, suppressed>>

\* known_event_ids = load_known_events()
LoadKnown ==
    /\ pc = "load"
    /\ known_event_ids' = load_known_events(dbFile)
    /\ io' = Append(io, "read_store")
    /\ pc' = "fetch"
    /\ UNCHANGED <<dbFile, env, current_events, new_events, message, startFile,
                   outbox, suppressed, prev>>

\* get_artist_events() returns a list; main() diffs it against the known set.
FetchOk(events) ==
    /\ pc = "fetch"
    /\ current_events' = events
    /\ io' = Append(io, "http_get")
    /\ LET new_event_ids == NewEventIds(EventIds(events), known_event_ids)
       IN  IF new_event_ids = {}
           THEN /\ new_events' = <<>>
                /\ pc' = "save"
           ELSE /\ new_events' = NewEvents(events, new_event_ids)
                /\ pc' = "notify"
    /\ UNCHANGED <<dbFile, env, known_event_ids, message, startFile, outbox,
                   suppressed, prev>>

\* Mutant: the request error is swallowed and an empty list returned.
FetchFailReturnsEmpty ==
    /\ pc = "fetch"
    /\ current_events' = <<>>
    /\ new_events' = <<>>
    /\ io' = io \o <<"http_get", "http_error">>
    /\ pc' = "save"
    /\ UNCHANGED <<dbFile, env, known_event_ids, message, startFile, outbox,
                   suppressed, prev>>

\* get_artist_events() re-raises a RequestException: main() ends there.
FetchFail ==
    /\ pc = "fetch"
    /\ io' = io \o <<"http_get", "http_error">>
    /\ pc' = "source_unavailable"
    /\ UNCHANGED <<dbFile, env, known_event_ids, current_events, new_events,
                   message, startFile, outbox, suppressed, prev>>

\* notify_email() raises ValueError on missing credentials.
NotifyNoCredentials ==
    /\ pc = "notify"
    /\ CredentialsMissing(env)
    /\ io' = Append(io, "notify_email")
    /\ pc' = "notification_failed"
    /\ UNCHANGED <<dbFile, env, known_event_ids, current_events, new_events,
                   message, startFile, outbox, suppressed, prev>>

\* notify_email() raises IndexError while building the body.
NotifyBuildRaises ==
    /\ pc = "notify"
    /\ ~CredentialsMissing(env)
    /\ \E i \in 1..Len(new_events) : BlockRaises(new_events[i])
    /\ io' = Append(io, "notify_email")
    /\ pc' = "notification_failed"
    /\ UNCHANGED <<dbFile, env, known_event_ids, current_events, new_events,
                   message, startFile, outbox, suppressed, prev>>

\* Mutant: the ids are saved before the mail is sent.
NotifySendOkSavesFirst ==
    /\ pc = "notify"
    /\ ~CredentialsMissing(env)
    /\ \A i \in 1..Len(new_events) : ~BlockRaises(new_events[i])
    /\ message' = BuildMessage(new_events)
    /\ \E ids \in Orderings(EventIds(current_events)) :
          dbFile' = [exists |-> TRUE, ids |-> ids]
    /\ io' = io \o <<"notify_email", "smtp_session", "mail_sent">>
    /\ outbox' = outbox \cup EventIds(new_events)
    /\ pc' = "save"
    /\ UNCHANGED <<env, known_event_ids, current_events, new_events,
                   startFile, suppressed, prev>>

\* notify_email() builds the message and the mail relay accepts it.
NotifySendOk ==
    /\ pc = "notify"
    /\ ~CredentialsMissing(env)
    /\ \A i \in 1..Len(new_events) : ~BlockRaises(new_events[i])
    /\ message' = BuildMessage(new_events)
    /\ io' = io \o <<"notify_email", "smtp_session", "mail_sent">>
    /\ outbox' = outbox \cup EventIds(new_events)
    /\ pc' = "save"
    /\ UNCHANGED <<dbFile, env, known_event_ids, current_events, new_events,
                   startFile, suppressed, prev>>

\* Mutant: the SMTP error is logged and not raised again.
NotifySendFailSwallowed ==
    /\ pc = "notify"
    /\ ~CredentialsMissing(env)
    /\ \A i \in 1..Len(new_events) : ~BlockRaises(new_events[i])
    /\ message' = BuildMessage(new_events)
    /\ io' = io \o <<"notify_email", "smtp_session", "smtp_error">>
    /\ pc' = "save"
    /\ UNCHANGED <<dbFile, env, known_event_ids, current_events, new_events,
                   startFile, outbox, suppressed, prev>>

\* notify_email() builds the message and the SMTP session raises.
NotifySendFail ==
    /\ pc = "notify"
    /\ ~CredentialsMissing(env)
    /\ \A i \in 1..Len(new_events) : ~BlockRaises(new_events[i])
    /\ message' = BuildMessage(new_events)
    /\ io' = io \o <<"notify_email", "smtp_session", "smtp_error">>
    /\ pc' = "notification_failed"
    /\ UNCHANGED <<dbFile, env, known_event_ids, current_events, new_events,
                   startFile, outbox, suppressed, prev>>

\* save_known_events(current_event_ids): json.dump(list(event_ids)) in the
\* iteration order of the set, whatever it is.
Save ==
    /\ pc = "save"
    /\ \E ids \in Orderings(IdsToSave(EventIds(current_events), known_event_ids)) :
          dbFile' = [exists |-> TRUE, ids |-> ids]
    /\ io' = Append(io, "write_store")
    /\ suppressed' = (suppressed \cup
                          (IF Did("mail_sent") THEN EventIds(new_events) ELSE {}))
                      \cap EventIds(current_events)
    /\ pc' = "done"
    /\ UNCHANGED <<env, known_event_ids, current_events, new_events, message,
                   startFile, outbox, prev>>

\* The process is killed between load_known_events and save_known_events.
Crash ==
    /\ pc \in {"fetch", "notify", "save"}
    /\ pc' = "crashed"
    /\ UNCHANGED <<dbFile, env, known_event_ids, current_events, new_events,
                   message, io, startFile, outbox, suppressed, prev>>

Next ==
    \/ \E e \in Envs : Invoke(e)
    \/ LoadKnown
    \/ \E events \in FetchResults : FetchOk(events)
    \/ FetchFail
    \/ NotifyNoCredentials
    \/ NotifyBuildRaises
    \/ NotifySendOk
    \/ NotifySendFail
    \/ Save

Spec == Init /\ [][Next]_vars

NextCrash == Next \/ Crash

SpecCrash == Init /\ [][NextCrash]_vars

----------------------------------------------------------------------------
(* Properties.                                                             *)

\* The current run's request to the event source was answered with a list.
FetchSucceeded == Did("http_get") /\ ~Did("http_error")

\* The known set as it is on disk, and as it was when the run started.
Persisted == load_known_events(dbFile)

PersistedAtStart == load_known_events(startFile)

\* C1: in a run whose fetch succeeded, notify_email is called if and only if
\* some fetched id is not in the loaded known set, and at most once; when
\* every fetched id is known it is not called.
C1_NotifyIffNewIds ==
    /\ Times("notify_email") <= 1
    /\ (pc \in Ended /\ FetchSucceeded) =>
          (Did("notify_email") <=> EventIds(current_events) \ known_event_ids # {})
    /\ (FetchSucceeded /\ EventIds(current_events) \subseteq known_event_ids) =>
          ~Did("notify_email")

C1_Witness ==
    /\ pc = "done"
    /\ Times("notify_email") = 1
    /\ known_event_ids # {}
    /\ EventIds(current_events) \cap known_event_ids # {}

\* C2 as stated: the persisted set after a completed run is a superset of
\* the persisted set before that run.
C2_GrowsMonotonically ==
    pc = "done" => PersistedAtStart \subseteq Persisted

\* C2 as amended: after a completed run a previously persisted id is still
\* persisted exactly when that run's fetch returned it, and every fetched id
\* is persisted.
C2_KeptIffFetched ==
    pc = "done" =>
        /\ \A id \in PersistedAtStart :
              id \in Persisted <=> id \in EventIds(current_events)
        /\ EventIds(current_events) \subseteq Persisted

C2_Witness ==
    /\ pc = "done"
    /\ PersistedAtStart \ Persisted # {}
    /\ PersistedAtStart \cap Persisted # {}

\* C3 as stated: a mail that is sent never lists an id that an earlier sent
\* mail listed.
C3_NeverMailedTwice ==
    [][(pc = "notify" /\ pc' = "save") => EventIds(new_events) \cap outbox = {}]_vars

\* C3 as amended: an id that was mailed in a completed run and that every
\* completed run since has fetched again is never handed to notify_email.
C3_SuppressedWhileFetched ==
    pc \in {"notify", "save", "notification_failed"} =>
        EventIds(new_events) \cap suppressed = {}

C3_Witness ==
    /\ pc = "save"
    /\ Did("mail_sent")
    /\ suppressed # {}
    /\ suppressed \subseteq EventIds(current_events)

\* C4: when the request to the event source fails the run ends there:
\* notify_email is not called, nothing is saved, and known_events.json is
\* what it was before the run.
C4_FetchFailureLeavesStore ==
    Did("http_error") =>
        /\ pc = "source_unavailable"
        /\ ~Did("notify_email")
        /\ ~Did("write_store")
        /\ dbFile = startFile

C4_Witness ==
    /\ pc = "source_unavailable"
    /\ dbFile.exists
    /\ dbFile.ids # <<>>

\* C5: with new events and a mail credential missing, notify_email raises
\* before an SMTP session is opened, nothing is saved, and known_events.json
\* is what it was before the run.
C5_MissingCredentialsLeaveStore ==
    ( /\ pc \in Ended
      /\ FetchSucceeded
      /\ EventIds(current_events) \ known_event_ids # {}
      /\ (~env.GMAIL_USER \/ ~env.GMAIL_APP_PASSWORD \/ ~env.RECIPIENTS) ) =>
        /\ pc = "notification_failed"
        /\ Did("notify_email")
        /\ ~Did("smtp_session")
        /\ ~Did("write_store")
        /\ dbFile = startFile

C5_Witness ==
    /\ pc = "notification_failed"
    /\ env.GMAIL_USER /\ env.GMAIL_APP_PASSWORD /\ ~env.RECIPIENTS
    /\ dbFile.exists
    /\ dbFile.ids # <<>>

\* C6: after a run that completes normally the persisted set is exactly the
\* set of ids that run fetched.
C6_SavedIsFetched ==
    pc = "done" => Persisted = EventIds(current_events)

C6_Witness ==
    /\ pc = "done"
    /\ Did("mail_sent")
    /\ PersistedAtStart # {}
    /\ ~(PersistedAtStart \subseteq EventIds(current_events))

\* C7: a run whose notification fails ends without saving, and when the
\* next run fetches the same events it finds the same events new and, if
\* its mail is sent, the mail lists exactly those.
C7_FailedNotificationRepeats ==
    /\ (Did("notify_email") /\ ~Did("mail_sent")) =>
          /\ pc = "notification_failed"
          /\ ~Did("write_store")
          /\ dbFile = startFile
    /\ (prev.outcome = "notification_failed" /\ FetchSucceeded
            /\ current_events = prev.current) =>
          /\ new_events = prev.new
          /\ new_events # <<>>
          /\ pc \in Ended => Did("notify_email")
          /\ Did("mail_sent") =>
                /\ message.count = Len(prev.new)
                /\ Len(message.blocks) = Len(prev.new)
                /\ \A i \in 1..Len(prev.new) :
                      message.blocks[i].Link = prev.new[i].url

C7_Witness ==
    /\ prev.outcome = "notification_failed"
    /\ FetchSucceeded
    /\ current_events = prev.current
    /\ pc = "done"
    /\ Did("mail_sent")

\* C8: the list handed to notify_email is the fetched list without the
\* events whose id is in the loaded known set, in the order of the fetch, and
\* the message has one block for each event of that list, in that order.
C8_NotifiedListIsNewInOrder ==
    (pc = "notify" \/ Did("notify_email")) =>
        /\ new_events =
              SelectSeq(current_events, LAMBDA ev : ev.id \notin known_event_ids)
        /\ message.built =>
              /\ message.count = Len(new_events)
              /\ Len(message.blocks) = Len(new_events)
              /\ \A i \in 1..Len(new_events) :
                    /\ message.blocks[i].Event = new_events[i].name
                    /\ message.blocks[i].Link = new_events[i].url
                    /\ message.blocks[i].Date =
                          (IF new_events[i].localDate = Absent THEN "N/A"
                           ELSE new_events[i].localDate)

C8_Witness ==
    /\ message.built
    /\ Len(current_events) = 2
    /\ Len(new_events) = 1
    /\ current_events[1].id \in known_event_ids
    /\ new_events[1] = current_events[2]

\* C9: without an API key the run ends with a configuration error before
\* any I/O: the store is not read, no request is made, notify_email is not
\* called and nothing is written.
C9_NoApiKeyNoIO ==
    (pc # "idle" /\ ~env.API_KEY) =>
        /\ pc = "config_error"
        /\ io = <<>>
        /\ dbFile = startFile

C9_Witness ==
    /\ pc = "config_error"
    /\ ~env.API_KEY
    /\ dbFile.exists
    /\ dbFile.ids # <<>>

\* C10: a run killed after the load and before the save leaves
\* known_events.json as it was, and the next run loads the very known set
\* the killed run had loaded, so that nothing the killed run knew is found
\* new.
C10_CrashLeavesStore ==
    /\ pc = "crashed" =>
          /\ ~Did("write_store")
          /\ dbFile = startFile
    /\ (prev.outcome = "crashed" /\ Did("read_store")) =>
          known_event_ids = prev.known
    /\ (prev.outcome = "crashed" /\ FetchSucceeded) =>
          EventIds(new_events) \cap prev.known = {}

C10_Witness ==
    /\ prev.outcome = "crashed"
    /\ prev.known # {}
    /\ Did("mail_sent")
    /\ EventIds(new_events) \cap prev.mailed # {}

====
